---- MODULE Spec2Model ----
(***************************************************************************)
(* explainer.py: a markdown document with embedded ```python: blocks is    *)
(* rendered by executing the blocks in order, caching each block's         *)
(* (globals, result) under a chained content key, uploading rendered       *)
(* results to S3 and splicing the embeds back into the text.               *)
(*                                                                         *)
(* Text is modelled as a sequence of one-character strings.  Offsets are   *)
(* 0-based as in Python; Slice(s, i, j) is the Python slice s[i:j].        *)
(***************************************************************************)
EXTENDS Integers, Sequences, FiniteSets, TLC

(***************************************************************************)
(* Bounds of the model.                                                    *)
(***************************************************************************)
\* how many times the editor saves the markdown file in one behaviour
MaxEdits == 2
\* how many times head_object may answer an existing key with a ClientError
MaxHeadErrors == 1
\* how many renderers a RendererLocator is built from
MaxRenderers == 3

(***************************************************************************)
(* String helpers (Python str semantics).                                  *)
(***************************************************************************)
Min(a, b) == IF a < b THEN a ELSE b

Slice(s, i, j) ==
  LET hi == Min(j, Len(s))
  IN  IF i >= hi THEN <<>> ELSE SubSeq(s, i + 1, hi)

At(s, i) == s[i + 1]

StartsWithAt(s, p, i) == Slice(s, i, i + Len(p)) = p

\* first offset k >= i where (s[k] in chars) = member, or len(s) when there
\* is none
FirstAt(s, i, chars, member) ==
  LET T == {k \in i..(Len(s) - 1) : (At(s, k) \in chars) = member}
  IN  IF T = {} THEN Len(s) ELSE CHOOSE k \in T : \A m \in T : k <= m

RECURSIVE Concat(_)
Concat(ss) == IF ss = <<>> THEN <<>> ELSE Head(ss) \o Concat(Tail(ss))

\* sep.join(ss)
RECURSIVE Join(_, _)
Join(sep, ss) ==
  IF ss = <<>> THEN <<>>
  ELSE IF Len(ss) = 1 THEN ss[1]
  ELSE ss[1] \o sep \o Join(sep, Tail(ss))

\* s.splitlines()
RECURSIVE SplitLines(_)
SplitLines(s) ==
  IF s = <<>> THEN <<>>
  ELSE LET k == FirstAt(s, 0, {"\n"}, TRUE)
       IN  <<Slice(s, 0, k)>> \o SplitLines(Slice(s, k + 1, Len(s)))

\* A backtick cannot be written inside a TLA+ string: Tick is that character.
Tick == "tick"
Fence == <<Tick, Tick, Tick>>
OpenTag == Fence \o <<"p", "y", "t", "h", "o", "n", ":">>
NL == <<"\n">>

\* the characters \s matches
Space == {" ", "\n", "\t", "\r"}

(***************************************************************************)
(* CodeBlock                                                               *)
(***************************************************************************)
\* CodeBlock.markdown: f'\n```python\n{self._raw}```\n'
markdown(raw) ==
  NL \o Fence \o <<"p", "y", "t", "h", "o", "n">> \o NL \o raw \o Fence \o NL

\* CodeBlock.normalized: '\n'.join(filter(lambda x: bool(x), raw.splitlines()))
normalized(raw) ==
  Join(NL, SelectSeq(SplitLines(raw), LAMBDA l : l # <<>>))

(***************************************************************************)
(* EmbeddedCodeBlock.pattern and extract_all                               *)
(*   ```python:\s+(?P<code>[^`]+)```                                       *)
(***************************************************************************)
NoMatch == [found |-> FALSE, start |-> 0, end |-> 0, code |-> <<>>]

\* pattern.match at offset p.  After the opening tag at q: \s+ is greedy and
\* stops at w, [^`]+ runs to the first backtick e (white space is not a
\* backtick, so w <= e).  When the body is white space only (w = e) the
\* matcher backtracks \s+ by one character to leave one for the code group.
MatchAt(s, p) ==
  LET q  == p + Len(OpenTag)
      w  == FirstAt(s, q, Space, FALSE)
      e  == FirstAt(s, q, {Tick}, TRUE)
      cs == IF w < e THEN w ELSE e - 1
  IN  IF /\ StartsWithAt(s, OpenTag, p)
         /\ cs > q
         /\ cs < e
         /\ StartsWithAt(s, Fence, e)
      THEN [found |-> TRUE, start |-> p, end |-> e + Len(Fence),
            code |-> Slice(s, cs, e)]
      ELSE NoMatch

\* pattern.finditer from offset pos, numbering the matches from i
RECURSIVE FindAll(_, _, _)
FindAll(s, pos, i) ==
  IF pos >= Len(s) THEN <<>>
  ELSE LET m == MatchAt(s, pos)
       IN  IF m.found
           THEN <<[raw |-> m.code, start |-> m.start,
                   span |-> m.end - m.start, position |-> i]>>
                \o FindAll(s, m.end, i + 1)
           ELSE FindAll(s, pos + 1, i)

\* EmbeddedCodeBlock.extract_all
extract_all(text) == FindAll(text, 0, 0)

\* EmbeddedCodeBlock.end
BlockEnd(block) == block.start + block.span

\* str(i) for the integers the model prints
Digits == <<"0", "1", "2", "3", "4", "5", "6", "7", "8", "9">>
StrInt(i) == <<Digits[i + 1]>>

\* a content_key that hashes the code as written, empty lines included
content_key_raw(block, preceeding) ==
  <<"p", "o", "s", "i", "t", "i", "o", "n", ":", " ">> \o StrInt(block.position)
    \o preceeding \o block.raw

\* a content_key that leaves the preceding key out of the hash
content_key_unchained(block, preceeding) ==
  <<"p", "o", "s", "i", "t", "i", "o", "n", ":", " ">> \o StrInt(block.position)
    \o normalized(block.raw)

\* EmbeddedCodeBlock.content_key: sha256 over 'position: {i}', then the
\* preceding key, then the normalized code.  The digest is taken to be
\* injective: the key is the text that is fed to the hash.
content_key(block, preceeding) ==
  <<"p", "o", "s", "i", "t", "i", "o", "n", ":", " ">> \o StrInt(block.position)
    \o preceeding \o normalized(block.raw)

(***************************************************************************)
(* Python values and the interpreter behind compile/exec.                  *)
(*                                                                         *)
(* A value is an int, a reference to a list object on the heap, the list   *)
(* of Artists that a plotting call returns, an AudioSamples array, an      *)
(* empty dict or None.                                                     *)
(* The heap maps object ids 1..Len(heap) to the items of the list objects; *)
(* two bindings with the same ref are the same Python object.              *)
(***************************************************************************)
None == [kind |-> "None", v |-> 0]
IntVal(i) == [kind |-> "int", v |-> i]
ListRef(id) == [kind |-> "list", v |-> id]
Artists == [kind |-> "artists", v |-> 0]
AudioSamples == [kind |-> "AudioSamples", v |-> 0]
DictVal == [kind |-> "dict", v |-> 0]

\* the statements fragments are written in, one per line.  P abbreviates a
\* plotting call such as plt.plot(a) (it draws on the current figure and
\* returns a list of Artists), S an expression building zounds.AudioSamples.
StAssignInt == <<"a", "=", "1">>
StNewList   == <<"a", "=", "[", "]">>
StExtend    == <<"a", "+", "=", "[", "1", "]">>
StLast      == <<"_", "=", "a">>
StPlot      == <<"_", "=", "P">>
StAudio     == <<"_", "=", "S">>
StDict      == <<"_", "=", "{", "}">>
Statements  ==
  {StAssignInt, StNewList, StExtend, StLast, StPlot, StAudio, StDict}

IsBlank(line) == \A k \in 1..Len(line) : line[k] = " "

\* compile(source, ..., mode='exec') succeeds
Compiles(source) ==
  \A k \in 1..Len(SplitLines(source)) :
     LET line == SplitLines(source)[k] IN line \in Statements \/ IsBlank(line)

\* glob[name] = value
Bind(glob, name, value) ==
  [k \in DOMAIN glob \cup {name} |-> IF k = name THEN value ELSE glob[k]]

\* dict(**glob): a new dict with the same bindings (a shallow copy)
dict(glob) == glob

\* a del that leaves the dict as it is
Unbind_nothing(glob, name) == glob

\* del glob[name], ignoring KeyError
Unbind(glob, name) == [k \in DOMAIN glob \ {name} |-> glob[k]]

\* glob.get(name, None)
Get(glob, name) == IF name \in DOMAIN glob THEN glob[name] ELSE None

\* one statement executed in the interpreter state st = [ok, glob, heap, figure]
ExecLine(line, st) ==
  IF IsBlank(line) THEN st
  ELSE IF line = StAssignInt THEN [st EXCEPT !.glob = Bind(@, "a", IntVal(1))]
  ELSE IF line = StNewList THEN
     [st EXCEPT !.heap = Append(@, <<>>),
                !.glob = Bind(@, "a", ListRef(Len(st.heap) + 1))]
  ELSE IF line = StExtend THEN
     \* NameError when a is unbound, TypeError when a is an int; a list is
     \* extended in place (list.__iadd__) and a stays bound to the same object
     IF "a" \in DOMAIN st.glob /\ st.glob["a"].kind = "list"
     THEN [st EXCEPT !.heap[st.glob["a"].v] = Append(@, 1)]
     ELSE [st EXCEPT !.ok = FALSE]
  ELSE IF line = StLast THEN
     IF "a" \in DOMAIN st.glob
     THEN [st EXCEPT !.glob = Bind(@, "_", st.glob["a"])]
     ELSE [st EXCEPT !.ok = FALSE]
  ELSE IF line = StPlot THEN
     [st EXCEPT !.glob = Bind(@, "_", Artists), !.figure = "drawn"]
  ELSE IF line = StAudio THEN [st EXCEPT !.glob = Bind(@, "_", AudioSamples)]
  ELSE IF line = StDict THEN [st EXCEPT !.glob = Bind(@, "_", DictVal)]
  ELSE [st EXCEPT !.ok = FALSE]

\* exec(bytecode, glob): the statements in order, stopping at the first raise
RECURSIVE Exec(_, _)
Exec(lines, st) ==
  IF lines = <<>> \/ ~st.ok THEN st ELSE Exec(Tail(lines), ExecLine(Head(lines), st))

\* CodeBlock.get_result and EmbeddedCodeBlock.get_result: compile, exec in
\* glob, return (glob, glob.get('_')).  ok = FALSE when compile or exec raises;
\* what a raising fragment did to the heap and the figure stays done.
Returned(st) ==
  [ok |-> st.ok, glob |-> st.glob, result |-> Get(st.glob, "_"),
   heap |-> st.heap, figure |-> st.figure]

Run(source, st) ==
  Returned(IF Compiles(source) THEN Exec(SplitLines(source), st)
           ELSE [st EXCEPT !.ok = FALSE])

get_result(block, glob, heap, figure) ==
  Run(normalized(block.raw),
      [ok |-> TRUE, glob |-> glob, heap |-> heap, figure |-> figure])

\* str(value), as the f-string of the textual fallback formats it
RECURSIVE StrItems(_)
StrItems(items) ==
  IF items = <<>> THEN <<>>
  ELSE IF Len(items) = 1 THEN StrInt(items[1])
  ELSE StrInt(items[1]) \o <<",", " ">> \o StrItems(Tail(items))

Str(value, heap) ==
  IF value.kind = "int" THEN StrInt(value.v)
  ELSE IF value.kind = "list" THEN <<"[">> \o StrItems(heap[value.v]) \o <<"]">>
  ELSE IF value.kind = "dict" THEN <<"{", "}">>
  ELSE <<"<", value.kind, ">">>

(***************************************************************************)
(* Renderers and RendererLocator                                           *)
(***************************************************************************)
\* a renderer: its class, its content_type, the kinds of value its
\* matches() accepts and the kinds on which its matches() raises
\* PlotRenderer.matches: an AxesImage, or result[0] is an Artist; IndexError
\* and TypeError (an int, None, an empty list) mean no match, and the items
\* of the model's lists and audio arrays are numbers, not Artists.  result[0]
\* of a dict without the key 0 raises KeyError, which is not caught.
PlotRenderer ==
  [class |-> "PlotRenderer", content_type |-> "image/png",
   accepts |-> {"AxesImage", "artists"}, raises |-> {"dict"}]
\* AudioRenderer.matches: isinstance(result, zounds.AudioSamples)
AudioRenderer ==
  [class |-> "AudioRenderer", content_type |-> "audio/ogg",
   accepts |-> {"AudioSamples"}, raises |-> {}]

\* what find_renderer hands back when it returns None, and when an exception
\* of a matches() leaves it
NoRenderer ==
  [class |-> "None", content_type |-> "", accepts |-> {}, raises |-> {}]
KeyError ==
  [class |-> "KeyError", content_type |-> "", accepts |-> {}, raises |-> {}]

IsRenderer(r) == r \notin {NoRenderer, KeyError}

\* CodeResultRenderer.matches: it returns True / it raises
matches(renderer, result) == result.kind \in renderer.accepts

Raises(renderer, result) == result.kind \in renderer.raises

\* a find_renderer that keeps the last match instead of the first
find_renderer_last(renderers, result) ==
  LET hits == {k \in 1..Len(renderers) : matches(renderers[k], result)}
  IN  IF \E k \in 1..Len(renderers) : Raises(renderers[k], result)
      THEN KeyError
      ELSE IF hits = {} THEN NoRenderer
      ELSE renderers[CHOOSE k \in hits : \A m \in hits : k >= m]

\* RendererLocator.find_renderer: next(filter(matches, renderers)), None on
\* StopIteration.  The filter asks the renderers in order and stops at the
\* first that matches; a matches() that raises before that ends the call.
find_renderer(renderers, result) ==
  LET hits == {k \in 1..Len(renderers) :
                 matches(renderers[k], result) \/ Raises(renderers[k], result)}
      stop == CHOOSE k \in hits : \A m \in hits : k <= m
  IN  IF hits = {} THEN NoRenderer
      ELSE IF Raises(renderers[stop], result) THEN KeyError
      ELSE renderers[stop]

\* render(result): PlotRenderer saves the *current figure* as png and clears
\* it (plt.savefig, plt.clf); AudioRenderer encodes the samples it is given
render(renderer, result, figure) ==
  IF renderer.class = "PlotRenderer"
  THEN [bytes |-> <<"png", figure>>, figure |-> "blank"]
  ELSE [bytes |-> <<"ogg", result.kind>>, figure |-> figure]

\* html.escape(s)
RECURSIVE HtmlEscape(_)
HtmlEscape(s) ==
  IF s = <<>> THEN <<>>
  ELSE LET c == Head(s)
           e == IF c = "&" THEN <<"&", "a", "m", "p", ";">>
                ELSE IF c = "<" THEN <<"&", "l", "t", ";">>
                ELSE IF c = ">" THEN <<"&", "g", "t", ";">>
                ELSE IF c = "\"" THEN <<"&", "q", "u", "o", "t", ";">>
                ELSE IF c = "'" THEN <<"&", "#", "x", "2", "7", ";">>
                ELSE <<c>>
       IN  e \o HtmlEscape(Tail(s))

\* PlotRenderer.html / AudioRenderer.html
html(renderer, url) ==
  IF renderer.class = "PlotRenderer"
  THEN <<"<", "i", "m", "g", " ", "s", "r", "c", "=", "\"">> \o HtmlEscape(url)
         \o <<"\"", " ", "/", ">">>
  ELSE <<"<", "a", "u", "d", "i", "o", " ", "c", "o", "n", "t", "r", "o", "l", "s",
         " ", "s", "r", "c", "=", "\"">> \o HtmlEscape(url)
         \o <<"\"", ">", "<", "/", "a", "u", "d", "i", "o", ">">>

(***************************************************************************)
(* S3Client                                                                *)
(***************************************************************************)
\* f'https://{bucket}.s3.amazonaws.com/{key}', for the bucket named b
Url(key) ==
  <<"h", "t", "t", "p", "s", ":", "/", "/", "b", ".", "s", "3", ".", "a", "m",
    "a", "z", "o", "n", "a", "w", "s", ".", "c", "o", "m", "/">> \o key

\* S3Client.key_exists: head_object answers, or raises ClientError, which is
\* read as "no such key" whatever the error was.  headError: the service
\* answers the request with an error although the key is there.
key_exists(bucket, key, headError) == key \in DOMAIN bucket /\ ~headError

\* a store_key that catches the exception of put_object and carries on
store_key_swallow(bucket, key, data, content_type, headError, putError) ==
  IF key_exists(bucket, key, headError) \/ putError
  THEN [ok |-> TRUE, put |-> FALSE, bucket |-> bucket, url |-> Url(key)]
  ELSE [ok |-> TRUE, put |-> TRUE, url |-> Url(key),
        bucket |-> [k \in DOMAIN bucket \cup {key} |->
                      IF k = key THEN [Body |-> data, ContentType |-> content_type]
                      ELSE bucket[k]]]

\* S3Client.store_key.  put_object raises when putError; the exception leaves
\* store_key (ok = FALSE).
store_key(bucket, key, data, content_type, headError, putError) ==
  IF key_exists(bucket, key, headError)
  THEN [ok |-> TRUE, put |-> FALSE, bucket |-> bucket, url |-> Url(key)]
  ELSE IF putError
  THEN [ok |-> FALSE, put |-> FALSE, bucket |-> bucket, url |-> <<>>]
  ELSE [ok |-> TRUE, put |-> TRUE, url |-> Url(key),
        bucket |-> [k \in DOMAIN bucket \cup {key} |->
                      IF k = key THEN [Body |-> data, ContentType |-> content_type]
                      ELSE bucket[k]]]

(***************************************************************************)
(* The documents the editor may save.                                      *)
(***************************************************************************)
Block(code) == OpenTag \o NL \o code \o Fence

CodeList    == StNewList \o NL \o StLast \o NL
CodeListGap == StNewList \o NL \o NL \o StLast \o NL
CodeInt     == StAssignInt \o NL \o StLast \o NL
CodeExtend  == StExtend \o NL
CodeLast    == StLast \o NL
CodePlot    == StPlot \o NL
CodeAudio   == StAudio \o NL
CodeDict    == StDict \o NL

Docs ==
  { <<"x", "\n", "y">>,
    \* no white space after the tag: not a block
    <<"x", "\n">> \o OpenTag \o StAssignInt \o Fence,
    <<"x", "\n">> \o Block(CodeList) \o <<"\n", "y">>,
    Block(CodeListGap) \o NL \o Block(CodeExtend),
    <<"x", "\n">> \o Block(CodeList) \o <<"y">> \o Block(CodeExtend) \o NL,
    <<"x", "\n">> \o Block(CodeList) \o <<"y">> \o Block(CodePlot),
    <<"x", "\n">> \o Block(CodeInt) \o <<"y">> \o Block(CodePlot),
    <<"x", "\n">> \o Block(CodeInt) \o <<"\n", "y">> \o Block(CodeExtend),
    Block(CodePlot) \o NL \o Block(CodePlot),
    Block(CodeExtend),
    Block(CodeAudio) \o <<"y">>,
    Block(CodeInt) \o NL \o Block(CodeDict) \o <<"y">>,
    Block(CodeList) \o NL \o Block(CodeExtend) \o NL \o Block(CodeLast),
    Block(CodeList) \o NL \o Block(CodeAudio) \o NL \o Block(CodeLast),
    Block(CodeExtend) \o NL \o Block(CodeExtend) \o NL \o Block(CodeLast) }

(***************************************************************************)
(* State                                                                   *)
(***************************************************************************)
VARIABLES
  markdown_file,   \* the text of the file at args.markdown
  output_file,     \* the file at output_path: [writes, text]
  watch,           \* args.watch
  render_locator,  \* the renderers of RendererLocator, in registration order
  result_cache,    \* content key -> <<globals, result>>
  bucket,          \* the S3 bucket: key -> [Body, ContentType]
  heap,            \* the list objects of the interpreter
  figure,          \* pyplot's current figure: "blank" or "drawn"
  pc,              \* "boot", "loop" (inside render_html), "idle" (blocked in
                   \* event_gen), "exit", "crash" (uncaught exception)
  caller,          \* who called render_html: "main" (line 328) or "watch"
  events,          \* the inotify events not yet read
  \* locals of render_html
  content, code_blocks, idx, g, current_pos, preceeding, chunks,
  \* bookkeeping for the properties
  keys,            \* the content keys the running pass has computed
  evals,           \* keys whose fragment the running pass handed to exec
  cached,          \* keys the running pass pulled from the cache
  puts,            \* key -> number of put_object calls that transferred it
  log,             \* one record per block the running pass has processed
  passes,          \* one record per render pass that has ended
  edits,           \* saves of the markdown file so far
  headErrors,      \* head_object errors on existing keys so far
  \* a RendererLocator on its own
  probe,           \* the value handed to find_renderer
  returned,        \* what find_renderer returned for it, {} before the call
  earlier          \* {} or the <<renderers, returned>> before the last swap

vars ==
  <<markdown_file, output_file, watch, render_locator, result_cache, bucket,
    heap, figure, pc, caller, events, content, code_blocks, idx, g,
    current_pos, preceeding, chunks, keys, evals, cached, puts, log, passes,
    edits, headErrors, probe, returned, earlier>>

locals == <<content, code_blocks, idx, g, current_pos, preceeding, chunks>>
locatorVars == <<probe, returned, earlier>>

EmptyDict == [k \in {} |-> None]

\* the process at line 326: nothing rendered, cached or stored yet
Fresh ==
  /\ output_file = [writes |-> 0, text |-> <<>>]
  /\ result_cache = EmptyDict
  /\ bucket = EmptyDict
  /\ heap = <<>>
  /\ figure = "blank"
  /\ pc = "boot"
  /\ caller = "main"
  /\ events = <<>>
  /\ content = <<>> /\ code_blocks = <<>> /\ idx = 1 /\ g = EmptyDict
  /\ current_pos = 0 /\ preceeding = <<>> /\ chunks = <<>>
  /\ keys = <<>> /\ evals = <<>> /\ cached = <<>> /\ puts = EmptyDict
  /\ log = <<>> /\ passes = <<>>
  /\ edits = 0 /\ headErrors = 0

\* lines 312-326: the arguments are parsed and the locator is built
Init ==
  /\ Fresh
  /\ markdown_file \in Docs
  /\ watch \in BOOLEAN
  /\ render_locator = <<PlotRenderer, AudioRenderer>>
  /\ probe = None /\ returned = {} /\ earlier = {}

\* inotify reports on the file from add_watch (line 334) until the process ends
Watching == pc = "idle" \/ (pc = "loop" /\ caller = "watch")

\* where control goes when render_html returns to the caller `who`
AfterReturn(who) ==
  IF who = "watch" \/ watch THEN "idle" ELSE "exit"

\* what is recorded about a pass when it ends
PassRecord(status, text, blocks, ks, ev, ca, ch, lg, out) ==
  [status |-> status, content |-> text, code_blocks |-> blocks, keys |-> ks,
   evals |-> ev, cached |-> ca, chunks |-> ch, log |-> lg, output |-> out]

\* the output file opened with 'a' instead of 'w'
Written_append(file, text) ==
  [writes |-> file.writes + 1, text |-> file.text \o text]

\* open(output_path, 'w').write(text)
Written(file, text) == [writes |-> file.writes + 1, text |-> text]

(***************************************************************************)
(* render_html, lines 220-237: read the file, extract the blocks, write    *)
(* the text through and return when there is none, else set up the loop.   *)
(***************************************************************************)
Begin(who, text, blocks) ==
  /\ caller' = who
  /\ keys' = <<>> /\ evals' = <<>> /\ cached' = <<>> /\ log' = <<>>
  /\ content' = text
  /\ code_blocks' = blocks
  /\ idx' = 1 /\ g' = EmptyDict /\ current_pos' = 0 /\ preceeding' = <<>>
  /\ chunks' = <<>>
  /\ IF Len(blocks) = 0
     THEN /\ output_file' = Written(output_file, text)
          /\ pc' = AfterReturn(who)
          /\ passes' = Append(passes,
               PassRecord("no_blocks", text, blocks, <<>>, <<>>, <<>>, <<>>, <<>>,
                          output_file'))
     ELSE /\ pc' = "loop"
          /\ UNCHANGED <<output_file, passes>>
  /\ UNCHANGED <<markdown_file, watch, render_locator, result_cache, bucket,
                 heap, figure, puts, edits, headErrors>>

BeginPass(who) == Begin(who, markdown_file, extract_all(markdown_file))

\* __main__, lines 326-329: the first render pass
MainRender ==
  /\ pc = "boot"
  /\ BeginPass("main")
  /\ UNCHANGED <<events, locatorVars>>

\* events handed over while render_html is running too, as a watcher on a
\* thread of its own would
InEventGen_threaded == pc \in {"idle", "loop"}

\* the process is blocked in notify.event_gen (line 335): the loop body, and
\* with it render_html, has returned
InEventGen == pc = "idle"

\* the watch loop, lines 335-339: the next event; a pass on IN_CLOSE_WRITE
WatchEvent ==
  /\ InEventGen
  /\ events # <<>>
  /\ events' = Tail(events)
  /\ IF Head(events) = "IN_CLOSE_WRITE"
     THEN BeginPass("watch")
     ELSE UNCHANGED <<markdown_file, output_file, watch, render_locator,
                      result_cache, bucket, heap, figure, pc, caller, locals,
                      keys, evals, cached, puts, log, passes, edits,
                      headErrors>>
  /\ UNCHANGED locatorVars

(***************************************************************************)
(* render_html, lines 238-278: one iteration of the loop over the blocks.  *)
(***************************************************************************)
\* lines 244-258: the cache lookup, and on KeyError the evaluation in a copy
\* of g and the insertion of a copy of the globals it returns
\* a miss whose result is not put into the cache
Computed_not_stored(cache, key, r) ==
  [ok |-> r.ok, hit |-> FALSE, g |-> r.glob, result |-> r.result,
   cache |-> cache, heap |-> r.heap, figure |-> r.figure]

\* a miss whose result is put into the cache although the fragment raised
Computed_even_if_raised(cache, key, r) ==
  [ok |-> r.ok, hit |-> FALSE, g |-> r.glob, result |-> r.result,
   cache |-> [k \in DOMAIN cache \cup {key} |->
                IF k = key THEN <<r.glob, r.result>> ELSE cache[k]],
   heap |-> r.heap, figure |-> r.figure]

\* a miss after which the cache holds the new entry and nothing else
Computed_only_latest(cache, key, r) ==
  [ok |-> r.ok, hit |-> FALSE, g |-> r.glob, result |-> r.result,
   cache |-> IF r.ok THEN [k \in {key} |-> <<r.glob, r.result>>] ELSE cache,
   heap |-> r.heap, figure |-> r.figure]

Computed(cache, key, r) ==
  [ok |-> r.ok, hit |-> FALSE, g |-> r.glob, result |-> r.result,
   cache |-> IF r.ok
             THEN [k \in DOMAIN cache \cup {key} |->
                     IF k = key THEN <<r.glob, r.result>> ELSE cache[k]]
             ELSE cache,
   heap |-> r.heap, figure |-> r.figure]

Lookup(cache, key, block, glob, hp, fig) ==
  IF key \in DOMAIN cache
  THEN [ok |-> TRUE, hit |-> TRUE, g |-> cache[key][1], result |-> cache[key][2],
        cache |-> cache, heap |-> hp, figure |-> fig]
  ELSE Computed(cache, key, get_result(block, dict(glob), hp, fig))

\* lines 260-273: the chunk that follows the block's markdown, if any
Embed(renderer, result, url, hp) ==
  IF IsRenderer(renderer) THEN <<html(renderer, url)>>
  ELSE IF result # None THEN <<<<Tick>> \o Str(result, hp) \o <<Tick>>>>
  ELSE <<>>

\* lines 275-278: del g['_'].  After a cache hit g is the very dict that the
\* cache holds, so the deletion is seen in the cache entry too.
AfterDel(look, key) ==
  IF look.hit
  THEN [look.cache EXCEPT ![key] = <<Unbind(look.g, "_"), look.result>>]
  ELSE look.cache

\* the position the text of the next chunk starts from (line 242)
NextPos(block) == BlockEnd(block) + 1

\* the cache with the insertion of line 258 moved behind the upload
AtLine258_deferred(look) == result_cache

\* the cache when control reaches line 260: after a miss the entry is in
AtLine258(look) == look.cache

\* the values a dict shows: its bindings with every list read from the heap
Shown(value, hp) ==
  IF value.kind = "list" THEN [kind |-> "list", v |-> hp[value.v]] ELSE value

Snapshot(glob, hp) == [k \in DOMAIN glob |-> Shown(glob[k], hp)]

\* what lines 244-278 leave behind, from the values computed on the way:
\* look (lines 244-258), renderer (260), bio (264), stored (265-268)
Outcome(key, look, renderer, bio, stored) ==
  [failed   |-> IF ~look.ok THEN "exec"
                ELSE IF renderer = KeyError THEN "locate"
                ELSE IF IsRenderer(renderer) /\ ~stored.ok THEN "store"
                ELSE "no",
   hit      |-> look.hit,
   result   |-> look.result,
   renderer |-> renderer,
   rendered |-> look.ok /\ IsRenderer(renderer),
   heap     |-> look.heap,
   figure   |-> IF look.ok /\ IsRenderer(renderer) THEN bio.figure
                ELSE look.figure,
   \* the cache and g when the store raises, and at the end of the iteration
   cache258 |-> AtLine258(look),
   g258     |-> look.g,
   cache    |-> AfterDel(look, key),
   g        |-> Unbind(look.g, "_"),
   bucket   |-> stored.bucket,
   put      |-> stored.put,
   embed    |-> Embed(renderer, look.result, stored.url, look.heap)]

Stored(key, look, renderer, bio, headError, putError) ==
  Outcome(key, look, renderer, bio,
          IF IsRenderer(renderer)
          THEN store_key(bucket, key, bio.bytes, renderer.content_type,
                         headError, putError)
          ELSE [ok |-> TRUE, put |-> FALSE, bucket |-> bucket, url |-> <<>>])

Rendered(key, look, renderer, headError, putError) ==
  Stored(key, look, renderer, render(renderer, look.result, look.figure),
         headError, putError)

Located(key, look, headError, putError) ==
  Rendered(key, look, find_renderer(render_locator, look.result),
           headError, putError)

Iteration(block, key, headError, putError) ==
  Located(key, Lookup(result_cache, key, block, g, heap, figure),
          headError, putError)

\* puts with one more transfer of key
Counted(count, key) ==
  [k \in DOMAIN count \cup {key} |->
     IF k = key THEN (IF k \in DOMAIN count THEN count[k] ELSE 0) + 1
     ELSE count[k]]

\* what is recorded about the iteration for one block: the environment g it
\* started from and what that dict showed before and after lines 244-258,
\* the result and how it was shown, what followed the block's markdown,
\* whether store_key was called, and the environment it hands on
Logged(key, it, glob, hp) ==
  [key      |-> key,
   hit      |-> it.hit,
   failed   |-> it.failed,
   env      |-> glob,
   before   |-> Snapshot(glob, hp),
   after    |-> Snapshot(glob, it.heap),
   result   |-> it.result,
   shown    |-> Shown(it.result, it.heap),
   text     |-> Str(it.result, it.heap),
   renderer |-> it.renderer.class,
   embed    |-> IF it.failed = "no" THEN it.embed ELSE <<>>,
   store    |-> it.rendered,
   put      |-> it.failed = "no" /\ it.put,
   handed   |-> Snapshot(it.g, it.heap)]

\* the state after the iteration for `block`, whose outcome is `it`
Iterate(block, key, it, headError, putError) ==
  /\ headError => /\ it.rendered
                  /\ key \in DOMAIN bucket
                  /\ headErrors < MaxHeadErrors
  /\ putError => it.rendered /\ ~key_exists(bucket, key, headError)
  /\ headErrors' = IF headError THEN headErrors + 1 ELSE headErrors
  /\ chunks' = chunks
       \o <<Slice(content, current_pos, block.start), markdown(block.raw)>>
       \o (IF it.failed = "no" THEN it.embed ELSE <<>>)
  /\ current_pos' = NextPos(block)
  /\ preceeding' = key
  /\ keys' = Append(keys, key)
  /\ evals' = IF it.hit THEN evals ELSE Append(evals, key)
  /\ cached' = IF it.hit THEN Append(cached, key) ELSE cached
  /\ heap' = it.heap
  /\ figure' = it.figure
  /\ IF it.failed = "exec"
     THEN \* the exception leaves render_html at line 255 and ends the
          \* process; g was not assigned
          /\ pc' = "crash"
          /\ result_cache' = it.cache258
          /\ UNCHANGED <<bucket, puts, g, idx>>
     ELSE IF it.failed \in {"locate", "store"}
     THEN \* the exception leaves render_html at line 260 or at line 265
          /\ pc' = "crash"
          /\ result_cache' = it.cache258
          /\ g' = it.g258
          /\ UNCHANGED <<bucket, puts, idx>>
     ELSE /\ pc' = "loop"
          /\ idx' = idx + 1
          /\ result_cache' = it.cache
          /\ g' = it.g
          /\ bucket' = it.bucket
          /\ puts' = IF it.put THEN Counted(puts, key) ELSE puts
  /\ log' = Append(log, Logged(key, it, g, heap))
  /\ passes' = IF it.failed = "no" THEN passes
               ELSE Append(passes,
                      PassRecord(it.failed, content, code_blocks, keys',
                                 evals', cached', chunks', log', output_file))

Keyed(block, key, headError, putError) ==
  Iterate(block, key, Iteration(block, key, headError, putError),
          headError, putError)

ProcessBlock ==
  /\ pc = "loop"
  /\ idx <= Len(code_blocks)
  /\ \E headError \in BOOLEAN, putError \in BOOLEAN :
       Keyed(code_blocks[idx], content_key(code_blocks[idx], preceeding),
             headError, putError)
  /\ UNCHANGED <<markdown_file, output_file, watch, render_locator, caller,
                 events, content, code_blocks, edits, locatorVars>>

(***************************************************************************)
(* render_html, lines 280-286: the text after the last block, the join,    *)
(* the write of the output file, the return.                               *)
(***************************************************************************)
FinishPass ==
  /\ pc = "loop"
  /\ idx > Len(code_blocks)
  /\ LET all == Append(chunks, Slice(content, current_pos, Len(content)))
         out == Written(output_file, Join(NL, all))
     IN  /\ chunks' = all
         /\ output_file' = out
         /\ passes' = Append(passes,
              PassRecord("ok", content, code_blocks, keys, evals, cached, all, log,
                         out))
  /\ pc' = AfterReturn(caller)
  /\ UNCHANGED <<markdown_file, watch, render_locator, result_cache, bucket, heap,
                 figure, caller, events, content, code_blocks, idx, g,
                 current_pos, preceeding, keys, evals, cached, puts, log, edits,
                 headErrors, locatorVars>>

(***************************************************************************)
(* The environment: an editor saves the markdown file (with any text, the  *)
(* old one included).  A watched file reports the write and the close.     *)
(***************************************************************************)
Edit ==
  /\ pc \in {"loop", "idle"}
  /\ edits < MaxEdits
  /\ edits' = edits + 1
  /\ markdown_file' \in Docs
  /\ events' = IF Watching THEN events \o <<"IN_MODIFY", "IN_CLOSE_WRITE">>
               ELSE events
  /\ UNCHANGED <<output_file, watch, render_locator, result_cache, bucket, heap,
                 figure, pc, caller, locals, keys, evals, cached, puts, log,
                 passes, headErrors, locatorVars>>

Next == MainRender \/ WatchEvent \/ ProcessBlock \/ FinishPass \/ Edit

Spec == Init /\ [][Next]_vars

(***************************************************************************)
(* A RendererLocator on its own: any registration order of up to           *)
(* MaxRenderers renderers, any value.  ListRenderer and TextRenderer are   *)
(* further CodeResultRenderer subclasses, whose matches() overlap with the *)
(* others'.                                                                *)
(***************************************************************************)
ListRenderer ==
  [class |-> "ListRenderer", content_type |-> "text/html",
   accepts |-> {"list", "artists"}, raises |-> {}]
TextRenderer ==
  [class |-> "TextRenderer", content_type |-> "text/plain",
   accepts |-> {"int", "list", "AudioSamples", "dict"}, raises |-> {}]
RendererPool == {PlotRenderer, AudioRenderer, ListRenderer, TextRenderer}

Registrations ==
  {r \in UNION {[1..n -> RendererPool] : n \in 0..MaxRenderers} :
     \A i, j \in DOMAIN r : i # j => r[i] # r[j]}

ProbeValues == {None, IntVal(1), ListRef(1), Artists, AudioSamples, DictVal}

\* renderers with the entries at i and j exchanged
Swapped(renderers, i, j) ==
  [k \in DOMAIN renderers |->
     IF k = i THEN renderers[j] ELSE IF k = j THEN renderers[i] ELSE renderers[k]]

LocInit ==
  /\ Fresh
  /\ markdown_file = <<>>
  /\ watch = FALSE
  /\ render_locator \in Registrations
  /\ probe \in ProbeValues
  /\ returned = {} /\ earlier = {}

\* render_locator.find_renderer(probe)
LocFind ==
  /\ returned = {}
  /\ returned' = {find_renderer(render_locator, probe)}
  /\ UNCHANGED <<markdown_file, output_file, watch, render_locator,
                 result_cache, bucket, heap, figure, pc, caller, events, locals,
                 keys, evals, cached, puts, log, passes, edits, headErrors,
                 probe, earlier>>

\* RendererLocator(...) built again with two of the renderers exchanged
LocSwap ==
  /\ returned # {} /\ earlier = {}
  /\ \E i, j \in DOMAIN render_locator :
       /\ i < j
       /\ render_locator' = Swapped(render_locator, i, j)
       /\ earlier' = {[renderers |-> render_locator, returned |-> returned,
                       i |-> i, j |-> j]}
  /\ returned' = {}
  /\ UNCHANGED <<markdown_file, output_file, watch, result_cache, bucket, heap,
                 figure, pc, caller, events, locals, keys, evals, cached, puts,
                 log, passes, edits, headErrors, probe>>

LocNext == LocFind \/ LocSwap

SpecLocator == LocInit /\ [][LocNext]_vars
(***************************************************************************)
(* Properties                                                              *)
(***************************************************************************)
LastPass == passes[Len(passes)]

Succeeded(p) == p.status \in {"ok", "no_blocks"}

\* the text of the document between block i and block i + 1 (before the
\* first block for i = 0, after the last one for i = Len(blocks))
Gap(text, blocks, i) ==
  Slice(text,
        IF i = 0 THEN 0 ELSE BlockEnd(blocks[i]),
        IF i = Len(blocks) THEN Len(text) ELSE blocks[i + 1].start)

\* the first offset k >= from where piece occurs in out, or -1
Find(out, piece, from) ==
  LET K == {k \in from..(Len(out) - Len(piece)) : StartsWithAt(out, piece, k)}
  IN  IF K = {} THEN -1 ELSE CHOOSE k \in K : \A m \in K : k <= m

\* out, read from pos on, holds for each of the blocks i..n its fenced
\* re-rendering and after it the document text that follows the block, with
\* anything in between (the embed), and ends with the text after the last block
RECURSIVE HoldsFrom(_, _, _, _, _)
HoldsFrom(out, pos, text, blocks, i) ==
  IF i > Len(blocks) THEN TRUE
  ELSE LET md == Find(out, markdown(blocks[i].raw), pos)
           gp == Gap(text, blocks, i)
       IN  /\ md >= 0
           /\ IF i = Len(blocks)
              THEN /\ Len(out) - Len(gp) >= md + Len(markdown(blocks[i].raw))
                   /\ StartsWithAt(out, gp, Len(out) - Len(gp))
              ELSE LET at == Find(out, gp, md + Len(markdown(blocks[i].raw)))
                   IN  /\ at >= 0
                       /\ HoldsFrom(out, at + Len(gp), text, blocks, i + 1)

\* the output keeps all the text outside the blocks, in order
KeepsOutsideText(p) ==
  /\ StartsWithAt(p.output.text, Gap(p.content, p.code_blocks, 0), 0)
  /\ HoldsFrom(p.output.text, Len(Gap(p.content, p.code_blocks, 0)),
               p.content, p.code_blocks, 1)

\* C1 (as claimed): a render pass that completes with at least one block
\* writes an output in which every character of the document outside the
\* block spans [start, end) is kept, in order: the text before the first
\* block, then for every block its replacement followed by the text up to the
\* next block, then the text after the last block.
C1_OutsideTextPreserved ==
  \A n \in 1..Len(passes) : passes[n].status = "ok" => KeepsOutsideText(passes[n])

\* C2: a pass over the text that the pass before it rendered successfully,
\* with the same cache, hands no fragment to the interpreter: every key it
\* computes is pulled from the cache.  This holds while the pass runs and for
\* the pass as recorded.
C2_SecondPassEvaluatesNothing ==
  /\ \A n \in 2..Len(passes) :
       Succeeded(passes[n - 1]) /\ passes[n].content = passes[n - 1].content
         => passes[n].evals = <<>> /\ passes[n].cached = passes[n].keys
  /\ (pc = "loop" /\ caller = "watch" /\ Succeeded(LastPass)
        /\ content = LastPass.content)
       => evals = <<>> /\ cached = keys

\* C2 witness: a first pass that evaluated two blocks, then a second pass over
\* the same text that completed and pulled both from the cache
C2_Witness ==
  /\ Len(passes) = 2
  /\ passes[1].status = "ok" /\ passes[2].status = "ok"
  /\ passes[1].content = passes[2].content
  /\ Len(passes[1].evals) >= 2
  /\ Len(passes[2].cached) >= 2

\* C3 (as claimed): two successive successful passes over the same text write
\* the same output.
C3_RerenderSameOutput ==
  \A n \in 2..Len(passes) :
    Succeeded(passes[n - 1]) /\ Succeeded(passes[n])
      /\ passes[n].content = passes[n - 1].content
      => passes[n].output.text = passes[n - 1].output.text

\* the content keys of blocks, chained from the seed
RECURSIVE ChainKeys(_, _)
ChainKeys(blocks, seed) ==
  IF blocks = <<>> THEN <<>>
  ELSE <<content_key(Head(blocks), seed)>>
         \o ChainKeys(Tail(blocks), content_key(Head(blocks), seed))

\* new is old with the normalized code of block k changed, and only that
EditedOnly(k, old, new) ==
  /\ Len(old) = Len(new)
  /\ k \in 1..Len(old)
  /\ \A j \in 1..Len(old) :
       (normalized(old[j].raw) = normalized(new[j].raw)) <=> j # k

\* the cache was filled by one successful pass, and the next pass runs on a
\* document in which only block k was edited
EditedAfterFirstPass(k) ==
  /\ Len(passes) >= 2
  /\ passes[1].status = "ok"
  /\ EditedOnly(k, passes[1].code_blocks, passes[2].code_blocks)

\* what both forms of C4 say about the keys, given the keys of the old and of
\* the new document and the pass over the new one: the blocks before k keep
\* their keys and are pulled from the cache, not evaluated; the blocks from k
\* on all get other keys, and none of them is pulled from the cache
SuffixInvalidated(k, was, now, p) ==
  /\ \A j \in 1..(k - 1) :
       /\ now[j] = was[j]
       /\ j <= Len(p.keys) => p.keys[j] = now[j]
                              /\ \E c \in 1..Len(p.cached) : p.cached[c] = now[j]
       /\ \A e \in 1..Len(p.evals) : p.evals[e] # now[j]
  /\ \A j \in k..Len(now) :
       /\ now[j] # was[j]
       /\ \A c \in 1..Len(p.cached) : p.cached[c] # now[j]
       /\ j <= Len(p.keys) => p.keys[j] = now[j]
                              /\ \E e \in 1..Len(p.evals) : p.evals[e] = now[j]

EditClaim(k, was, now, p, all) ==
  /\ SuffixInvalidated(k, was, now, p)
  /\ all => \A j \in k..Len(now) : \E e \in 1..Len(p.evals) : p.evals[e] = now[j]

\* the number of blocks of the document of the second pass
SecondPassBlocks == IF Len(passes) >= 2 THEN Len(passes[2].code_blocks) ELSE 0

\* C4 (as claimed): after one successful pass and an edit of block k only, the
\* next pass pulls blocks 1..k-1 from the cache under unchanged keys, and
\* every block k..n has a new key and is evaluated.  (Stated for the passes in
\* which S3 takes every upload, so that no refutation rests on S3 failing.)
C4_AllLaterBlocksEvaluated ==
  \A k \in 1..SecondPassBlocks :
    EditedAfterFirstPass(k) /\ passes[2].status # "store"
      => EditClaim(k, ChainKeys(passes[1].code_blocks, <<>>),
                   ChainKeys(passes[2].code_blocks, <<>>), passes[2], TRUE)

\* C4 (amended): ... every block k..n has a new key, none of them is pulled
\* from the cache, and each one that the pass reaches is evaluated; a pass
\* that aborts at a block does not evaluate the blocks after it.
C4_EditInvalidatesSuffix ==
  \A k \in 1..SecondPassBlocks :
    EditedAfterFirstPass(k)
      => EditClaim(k, ChainKeys(passes[1].code_blocks, <<>>),
                   ChainKeys(passes[2].code_blocks, <<>>), passes[2], FALSE)

\* C4 witness: block 2 of 3 was edited; the second pass completed, pulled
\* block 1 from the cache and evaluated blocks 2 and 3
C4_Witness ==
  /\ EditedAfterFirstPass(2)
  /\ passes[2].status = "ok"
  /\ Len(passes[2].keys) = 3
  /\ Len(passes[2].cached) = 1
  /\ Len(passes[2].evals) = 2

\* C5 (as claimed): after a pass that the watch loop started has aborted, the
\* process is still in the watch loop: waiting for events, or rendering again.
\* (The first pass is the one of line 328; every later one is the loop's.)
C5_WatchLoopKeepsWaiting ==
  (Len(passes) >= 2 /\ LastPass.status \in {"exec", "store"})
    => pc \in {"idle", "loop"}

\* the output file after the passes 1..n
OutputAfter(n) ==
  IF n = 0 THEN [writes |-> 0, text |-> <<>>] ELSE passes[n].output

\* C6: when a fragment raises, the pass writes no output file (the file is as
\* the pass before left it) and the cache has no entry under the key of the
\* failing block, neither when the pass ends nor later.
C6_FailedFragmentLeavesNothing ==
  \A n \in 1..Len(passes) :
    passes[n].status = "exec"
      => /\ passes[n].output = OutputAfter(n - 1)
         /\ output_file = OutputAfter(n - 1)
         /\ passes[n].keys[Len(passes[n].keys)] \notin DOMAIN result_cache

\* C6 witness: the second block of a pass raised, after an earlier pass had
\* written the output file
C6_Witness ==
  /\ Len(passes) >= 2
  /\ LastPass.status = "exec"
  /\ Len(LastPass.keys) >= 2
  /\ output_file.writes >= 1
  /\ pc = "crash"

\* a render pass is entered in this step: from line 328, or by the watch loop
\* on an IN_CLOSE_WRITE event
PassBegins ==
  \/ pc = "boot" /\ pc' # "boot"
  \/ /\ pc = "idle" /\ events # <<>> /\ events' = Tail(events)
     /\ Head(events) = "IN_CLOSE_WRITE"

\* the text has a block: some offset where the pattern matches
HasBlock(text) == \E p \in 0..Len(text) : MatchAt(text, p).found

\* C7: a pass over a document without a block returns at once (it never
\* enters the loop): the output file holds the document's text, nothing was
\* evaluated, and cache, bucket, interpreter and figure are left as they were.
C7_NoBlocksCopiesInput ==
  [][(PassBegins /\ ~HasBlock(markdown_file))
       => /\ pc' \in {"idle", "exit"}
          /\ output_file'.text = markdown_file
          /\ output_file'.writes = output_file.writes + 1
          /\ evals' = <<>> /\ cached' = <<>> /\ keys' = <<>>
          /\ passes' = Append(passes, LastPass')
          /\ LastPass'.status = "no_blocks"
          /\ UNCHANGED <<result_cache, bucket, puts, heap, figure>>]_vars

\* C7 witness: a pass over a document that has the opening tag but no block
\* copied it to an output file that held something else
C7_Witness ==
  /\ Len(passes) >= 2
  /\ LastPass.status = "no_blocks"
  /\ \E p \in 0..Len(LastPass.content) : StartsWithAt(LastPass.content, OpenTag, p)
  /\ output_file.text = LastPass.content
  /\ passes[Len(passes) - 1].output.text # LastPass.content
  /\ result_cache # EmptyDict

\* C8 (as claimed): no key is transferred to the bucket more than once.
C8_KeyTransferredAtMostOnce ==
  \A k \in DOMAIN puts : puts[k] <= 1

\* the chunk that embeds block i of pass p, and whether p has it
EmbedOf(p, i) ==
  html(find_renderer(render_locator, result_cache[p.keys[i]][2]), Url(p.keys[i]))

Among(chunk, all) == \E c \in 1..Len(all) : all[c] = chunk

Embedded(p, i) == Among(EmbedOf(p, i), p.chunks)

\* C9: a pass in which an upload fails writes no output file; the output file
\* is written by the passes that complete and by no other step (so only after
\* the last block); and in a completed pass every block whose result has a
\* renderer is embedded by its URL, and the bucket holds its key.
C9_StoreFailureIsFatal ==
  /\ output_file.writes
       = Cardinality({n \in 1..Len(passes) : Succeeded(passes[n])})
  /\ output_file = OutputAfter(Len(passes))
  /\ \A n \in 1..Len(passes) :
       /\ passes[n].status = "store" => passes[n].output = OutputAfter(n - 1)
       /\ passes[n].status = "ok" =>
            /\ Len(passes[n].keys) = Len(passes[n].code_blocks)
            /\ passes[n].output.text = Join(NL, passes[n].chunks)
            /\ \A i \in 1..Len(passes[n].keys) :
                 IsRenderer(find_renderer(render_locator,
                                          result_cache[passes[n].keys[i]][2]))
                   => passes[n].keys[i] \in DOMAIN bucket /\ Embedded(passes[n], i)

\* C9 witness: an upload failed in a pass that had already processed a block,
\* with an output file from an earlier pass in place
C9_Witness ==
  /\ Len(passes) >= 2
  /\ LastPass.status = "store"
  /\ Len(LastPass.keys) >= 2
  /\ output_file.writes >= 1
  /\ pc = "crash"

\* the positions of the renderers that accept the probe
Accepting(renderers) ==
  {k \in DOMAIN renderers : matches(renderers[k], probe)}

\* C10: a call of find_renderer that returns (no matches() raised on the
\* way) returns the accepting renderer that was registered first, and None
\* exactly when no registered renderer accepts the value; and when two
\* renderers that both accept it are exchanged and the first of them was the
\* one returned, the other one is returned afterwards.
C10_FirstMatchWins ==
  \A r \in returned :
    /\ r # KeyError =>
         IF Accepting(render_locator) = {} THEN r = NoRenderer
         ELSE \E k \in Accepting(render_locator) :
                /\ r = render_locator[k]
                /\ \A m \in Accepting(render_locator) : k <= m
    /\ \A e \in earlier :
         ({e.i, e.j} \subseteq Accepting(e.renderers)
            /\ e.returned = {e.renderers[e.i]})
           => r = e.renderers[e.j] /\ r # e.renderers[e.i]

\* C10 witness: two renderers that accept the value were exchanged, the first
\* of them had been returned, and find_renderer has been called again
C10_Witness ==
  /\ returned # {}
  /\ \E e \in earlier :
       /\ {e.i, e.j} \subseteq Accepting(e.renderers)
       /\ e.returned = {e.renderers[e.i]}
       /\ Len(e.renderers) = 3

\* the log entries of all the passes that have ended
Entries == {<<n, i>> \in (1..Len(passes)) \X (1..3) : i <= Len(passes[n].log)}

Entry(ni) == passes[ni[1]].log[ni[2]]

\* some registered renderer's matches() returns True for the value
SomeMatches(result) ==
  \E k \in DOMAIN render_locator : matches(render_locator[k], result)

\* C11 (as claimed): what follows the markdown of a block whose fragment ran
\* (or was pulled from the cache) is the embed markup, with store_key called
\* for the block's key, when a renderer matches the result; the result as
\* text, without store_key, when none matches and the result is not None; and
\* nothing, without store_key, when none matches and the result is None.
\* (Stated for the blocks whose upload S3 takes.)
C11_OneOfThreeOutputs ==
  \A ni \in Entries :
    Entry(ni).failed \notin {"exec", "store"} =>
      IF SomeMatches(Entry(ni).result)
      THEN /\ \E k \in DOMAIN render_locator :
                Entry(ni).embed
                  = <<html(render_locator[k], Url(Entry(ni).key))>>
           /\ Entry(ni).store
           /\ Entry(ni).key \in DOMAIN bucket
      ELSE /\ ~Entry(ni).store
           /\ Entry(ni).embed
                = IF Entry(ni).result # None
                  THEN <<<<Tick>> \o Entry(ni).text \o <<Tick>>>>
                  ELSE <<>>

\* the normalized code of the blocks, in order
NormalizedCode(blocks) == [i \in DOMAIN blocks |-> normalized(blocks[i].raw)]

\* the keys ks were computed for blocks, each from the key before it and the
\* first from the empty string
Chained(ks, blocks) ==
  \A i \in DOMAIN ks :
    ks[i] = content_key(blocks[i], IF i = 1 THEN <<>> ELSE ks[i - 1])

\* C12: in every pass the key of the first block is computed from the empty
\* string and the key of every later block from the key of the block before;
\* and two passes over documents whose blocks have the same normalized code,
\* in the same order, compute the same key for every block index that both
\* reach, whatever text surrounds the blocks.
C12_KeysDependOnBlocksOnly ==
  /\ Chained(keys, code_blocks)
  /\ \A n \in 1..Len(passes) : Chained(passes[n].keys, passes[n].code_blocks)
  /\ \A n, m \in 1..Len(passes) :
       NormalizedCode(passes[n].code_blocks) = NormalizedCode(passes[m].code_blocks)
         => \A i \in DOMAIN passes[n].keys \cap DOMAIN passes[m].keys :
              passes[n].keys[i] = passes[m].keys[i]

\* C12 witness: two passes over documents that differ in the text around the
\* blocks and in the code as written, with the same normalized code, both
\* with two keys
C12_Witness ==
  \E n, m \in 1..Len(passes) :
    /\ Len(passes[n].keys) = 2 /\ Len(passes[m].keys) = 2
    /\ passes[n].content # passes[m].content
    /\ passes[n].code_blocks[1].raw # passes[m].code_blocks[1].raw
    /\ passes[n].code_blocks[1].start # passes[m].code_blocks[1].start
    /\ NormalizedCode(passes[n].code_blocks) = NormalizedCode(passes[m].code_blocks)

\* C13 (as claimed): no step changes an entry that the cache holds: every key
\* of the cache keeps its dict, binding for binding, and its result.  (A key
\* is inserted only when it is absent, so keeping the entries also means no
\* second insertion.)
C13_EntriesNeverChange ==
  [][\A k \in DOMAIN result_cache :
       /\ k \in DOMAIN result_cache'
       /\ result_cache'[k] = result_cache[k]]_vars

\* the fragment has a statement that binds '_'
HasLine(lines, statements) == \E k \in DOMAIN lines : lines[k] \in statements

SetsLast(raw) ==
  HasLine(SplitLines(normalized(raw)), {StLast, StPlot, StAudio, StDict})

\* the blocks logged in lg started from a g without '_', and those of them
\* that do not bind '_' (and did not raise) have the result None
NoStaleLast(lg, blocks) ==
  \A i \in DOMAIN lg :
    /\ "_" \notin DOMAIN lg[i].env
    /\ (lg[i].failed # "exec" /\ ~SetsLast(blocks[i].raw)) => lg[i].result = None

\* C14: in the running pass and in every pass that has ended, every block
\* starts from an environment g in which '_' is not bound, whether the block
\* before it was pulled from the cache or evaluated, and a block that does
\* not bind '_' itself has the result None.
C14_LastValueNotInherited ==
  /\ pc = "loop" => "_" \notin DOMAIN g
  /\ NoStaleLast(log, code_blocks)
  /\ \A n \in 1..Len(passes) : NoStaleLast(passes[n].log, passes[n].code_blocks)

\* C14 witness: a pass pulled its first block, which binds '_', from the
\* cache and evaluated its second block, which does not bind '_' and got the
\* result None
C14_Witness ==
  /\ Len(passes) >= 2
  /\ Len(LastPass.log) >= 2
  /\ LastPass.log[1].hit /\ LastPass.log[1].result # None
  /\ ~LastPass.log[2].hit /\ LastPass.log[2].failed = "no"
  /\ LastPass.log[2].result = None
  /\ "a" \in DOMAIN LastPass.log[2].env

\* C15 (as claimed): the evaluation of a block on a cache miss leaves the
\* environment held before the call as it was: the dict g (after a hit on
\* the block before, the dict of that block's cache entry) shows the same
\* values after the evaluation as before it.
C15_EvaluationLeavesEnvironment ==
  \A ni \in Entries : ~Entry(ni).hit => Entry(ni).after = Entry(ni).before

\* C16: while a render pass is running no event is taken from inotify and no
\* other pass begins: the events only queue up, and the pass keeps its
\* document, its blocks and its caller until it has returned or raised; and
\* the cache and the bucket change only in a step of the running pass, for
\* the key of the block that pass is at.
C16_OnePassAtATime ==
  [][/\ pc = "loop" =>
          /\ Len(events') >= Len(events)
          /\ Slice(events', 0, Len(events)) = events
          /\ content' = content /\ code_blocks' = code_blocks
          /\ caller' = caller
          /\ idx' \in {idx, idx + 1}
          /\ Len(log') >= Len(log)
     /\ (result_cache' # result_cache \/ bucket' # bucket) =>
          /\ pc = "loop"
          /\ keys' = Append(keys, content_key(code_blocks[idx], preceeding))]_vars

\* C16 witness: a pass started by the watch loop has processed a block, the
\* file was saved meanwhile, and the events of that save are waiting
C16_Witness ==
  /\ pc = "loop" /\ caller = "watch"
  /\ idx >= 2
  /\ content # markdown_file
  /\ events # <<>>

\* the last block a pass came to
LastEntry(p) == p.log[Len(p.log)]

\* C17: every key of the bucket has an entry in the cache; and a pass that
\* ends in find_renderer or in the upload of a block leaves the cache with
\* the entry of that block, holding the result the pass computed: the
\* insertion comes before the renderer lookup and before the upload.
C17_CachedBeforeStored ==
  /\ DOMAIN bucket \subseteq DOMAIN result_cache
  /\ \A n \in 1..Len(passes) :
       passes[n].status \in {"locate", "store"} =>
         /\ LastEntry(passes[n]).key \in DOMAIN result_cache
         /\ result_cache[LastEntry(passes[n]).key][2] = LastEntry(passes[n]).result

\* C17 witness: the upload of a block that had just been evaluated failed,
\* with another key already in the bucket
C17_Witness ==
  /\ Len(passes) >= 1
  /\ LastPass.status = "store"
  /\ ~LastEntry(LastPass).hit
  /\ LastEntry(LastPass).key \in DOMAIN result_cache
  /\ LastEntry(LastPass).key \notin DOMAIN bucket
  /\ bucket # EmptyDict

\* C18 (as claimed): a block pulled from the cache is rendered from the same
\* value, and hands the same environment to the next block, as when the
\* block was evaluated: any two log entries for one key, one an evaluation
\* and one a cache hit, show the same result and the same environment.
C18_HitEqualsMiss ==
  \A e1, e2 \in Entries :
    (Entry(e1).key = Entry(e2).key /\ Entry(e1).failed = "no"
       /\ ~Entry(e1).hit /\ Entry(e2).hit)
      => /\ Entry(e2).shown = Entry(e1).shown
         /\ Entry(e2).handed = Entry(e1).handed

\* the cache has an entry for the key of every block of every pass that
\* completed, and for the keys of the blocks before the one at which a pass
\* raised
Covered ==
  \A n \in 1..Len(passes) :
    /\ passes[n].status = "ok" =>
         /\ Len(passes[n].keys) = Len(passes[n].code_blocks)
         /\ passes[n].keys = ChainKeys(passes[n].code_blocks, <<>>)
         /\ \A i \in DOMAIN passes[n].keys :
              passes[n].keys[i] \in DOMAIN result_cache
    /\ passes[n].status \in {"exec", "locate", "store"} =>
         \A i \in 1..(Len(passes[n].keys) - 1) :
           passes[n].keys[i] \in DOMAIN result_cache

\* C19: no step takes a key out of the cache, and after every step the cache
\* covers the passes that have ended: all blocks of a pass that completed,
\* and the blocks before the failing one of a pass that raised.
C19_CacheGrowsAndCovers ==
  /\ [][DOMAIN result_cache \subseteq DOMAIN result_cache']_vars
  /\ []Covered

\* C19 witness: after a completed pass with two blocks, a pass over another
\* document raised at its second block, and the cache holds the keys of both
\* passes
C19_Witness ==
  /\ Len(passes) >= 2
  /\ passes[1].status = "ok" /\ Len(passes[1].keys) >= 2
  /\ LastPass.status = "exec" /\ Len(LastPass.keys) >= 2
  /\ LastPass.keys[1] \notin {passes[1].keys[i] : i \in DOMAIN passes[1].keys}
  /\ Cardinality(DOMAIN result_cache) >= 3
====
